---- MODULE Spec2Model ----
(***************************************************************************)
(* A model of src/lib.rs: the two wasm-bindgen exports greet and main and  *)
(* the two host imports alert and log they call.                           *)
(*                                                                         *)
(* A string is a sequence of one-character strings.  The module instance   *)
(* is single-threaded: the host calls an export, the export runs to its    *)
(* end (or is unwound by an exception of the host import), and only then   *)
(* can the next call start.  The host side is observed through three       *)
(* records: alerts and logs (the messages each import was invoked with)    *)
(* and trace (every crossing of the boundary, in order).                   *)
(***************************************************************************)
EXTENDS Naturals, Sequences, FiniteSets, TLC

\* ---------------------------------------------------------------- bounds
MaxLen == 1        \* longest enumerated name (World is added on top)
MaxCalls == 2      \* calls the host makes in one behaviour

\* Characters the enumerated names are drawn from: a blank (trimming), the
\* suffix character itself, and a brace (the template's own meta character).
Alphabet == {" ", "!", "{"}

World == <<"W", "o", "r", "l", "d">>

Names == UNION {[1..n -> Alphabet] : n \in 0..MaxLen} \cup {World}

\* ------------------------------------------------------------ the strings
\* The format template of greet, "Hello, {}!".
GreetTemplate == <<"H", "e", "l", "l", "o", ",", " ", "{", "}", "!">>

\* Faulty variant of MainLiteral: the capitalised greeting.
MainLiteralUpper == <<"H", "e", "l", "l", "o", ",", " ", "W", "o", "r", "l", "d", "!">>
\* The literal main passes to log, "Hello, world!".
MainLiteral == <<"H", "e", "l", "l", "o", ",", " ", "w", "o", "r", "l", "d", "!">>

Min(a, b) == IF a < b THEN a ELSE b

RECURSIVE TrimStart(_)
TrimStart(s) == IF s # <<>> /\ Head(s) = " " THEN TrimStart(Tail(s)) ELSE s

RECURSIVE TrimEnd(_)
TrimEnd(s) ==
    IF s # <<>> /\ s[Len(s)] = " " THEN TrimEnd(SubSeq(s, 1, Len(s) - 1)) ELSE s

\* Faulty variants of DisplayStr: the name trimmed, and the name cut to a precision.
DisplayStrTrimmed(s) == TrimEnd(TrimStart(s))
DisplayStrTruncated(s) == SubSeq(s, 1, Min(Len(s), 3))

\* <str as Display>::fmt with an empty format spec ("{}"): every character of
\* the argument is written to the output, in order.
RECURSIVE DisplayStr(_)
DisplayStr(s) == IF s = <<>> THEN <<>> ELSE <<Head(s)>> \o DisplayStr(Tail(s))

\* format!(template, arg): literal characters are copied, "{{" and "}}" are
\* the escapes of a brace, and "{}" is replaced by the Display of the argument.
\* The argument is never scanned for braces.
RECURSIVE FormatArgs(_, _)
FormatArgs(tpl, arg) ==
    IF tpl = <<>> THEN <<>>
    ELSE IF Len(tpl) >= 2 /\ tpl[1] = "{" /\ tpl[2] = "{"
        THEN <<"{">> \o FormatArgs(SubSeq(tpl, 3, Len(tpl)), arg)
    ELSE IF Len(tpl) >= 2 /\ tpl[1] = "}" /\ tpl[2] = "}"
        THEN <<"}">> \o FormatArgs(SubSeq(tpl, 3, Len(tpl)), arg)
    ELSE IF Len(tpl) >= 2 /\ tpl[1] = "{" /\ tpl[2] = "}"
        THEN DisplayStr(arg) \o FormatArgs(SubSeq(tpl, 3, Len(tpl)), arg)
    ELSE <<tpl[1]>> \o FormatArgs(Tail(tpl), arg)

\* ------------------------------------------------------------------ state
VARIABLES
    pc,      \* where the running export is; "idle" when none is running
    name,    \* greet's parameter: <<>> outside greet, <<n>> inside
    buf,     \* the String of format!: <<>> when none is alive, <<s>> otherwise
    alerts,  \* host: the messages alert was invoked with, in order
    logs,    \* host: the messages log was invoked with, in order
    trace    \* every boundary crossing, in order

vars == <<pc, name, buf, alerts, logs, trace>>

Ev(kind, who, text) == [kind |-> kind, who |-> who, text |-> text]

GreetPcs == {"greet_format", "greet_alert", "in_alert", "greet_ret"}
MainPcs == {"main_log", "in_log", "main_ret"}

NCalls == Len(SelectSeq(trace, LAMBDA e : e.kind = "call"))

Init ==
    /\ pc = "idle"
    /\ name = <<>>
    /\ buf = <<>>
    /\ alerts = <<>>
    /\ logs = <<>>
    /\ trace = <<>>

\* ------------------------------------------------------------------ greet
\* The host calls greet(n).
CallGreet(n) ==
    /\ pc = "idle"
    /\ NCalls < MaxCalls
    /\ pc' = "greet_format"
    /\ name' = <<n>>
    /\ trace' = Append(trace, Ev("call", "greet", n))
    /\ UNCHANGED <<buf, alerts, logs>>

\* Faulty variant of GreetFormat: the message is written into a buffer that outlives
\* the call and is not cleared, so it still holds the previous message.
GreetFormatReusedBuffer ==
    /\ pc = "greet_format"
    /\ buf' = IF alerts # <<>>
              THEN <<alerts[Len(alerts)] \o FormatArgs(GreetTemplate, name[1])>>
              ELSE <<FormatArgs(GreetTemplate, name[1])>>
    /\ pc' = "greet_alert"
    /\ UNCHANGED <<name, alerts, logs, trace>>

\* Faulty variant of GreetFormat: an empty name panics, which traps the instance's
\* call instead of returning.
GreetFormatPanics ==
    /\ pc = "greet_format"
    /\ IF name[1] = <<>>
       THEN /\ pc' = "idle"
            /\ name' = <<>>
            /\ buf' = <<>>
            /\ trace' = Append(trace, Ev("panic", "greet", <<>>))
       ELSE /\ pc' = "greet_alert"
            /\ buf' = <<FormatArgs(GreetTemplate, name[1])>>
            /\ UNCHANGED <<name, trace>>
    /\ UNCHANGED <<alerts, logs>>

\* format!("Hello, {}!", name)
GreetFormat ==
    /\ pc = "greet_format"
    /\ buf' = <<FormatArgs(GreetTemplate, name[1])>>
    /\ pc' = "greet_alert"
    /\ UNCHANGED <<name, alerts, logs, trace>>

\* Faulty variant of GreetAlert: a message already alerted is not alerted again.
GreetAlertDeduplicated ==
    /\ pc = "greet_alert"
    /\ IF \E i \in DOMAIN alerts : alerts[i] = buf[1]
       THEN /\ pc' = "greet_ret"
            /\ UNCHANGED <<alerts, trace>>
       ELSE /\ pc' = "in_alert"
            /\ alerts' = Append(alerts, buf[1])
            /\ trace' = Append(trace, Ev("invoke", "alert", buf[1]))
    /\ UNCHANGED <<name, buf, logs>>

\* Faulty variant of GreetAlert: the alert is handed to the host to run later, and
\* greet returns before the host runs it.
GreetAlertDeferred ==
    /\ pc = "greet_alert"
    /\ pc' = "idle"
    /\ name' = <<>>
    /\ buf' = <<>>
    /\ alerts' = Append(alerts, buf[1])
    /\ trace' = trace \o <<Ev("return", "greet", <<>>), Ev("invoke", "alert", buf[1])>>
    /\ UNCHANGED logs

\* Faulty variant of GreetAlert: the message is logged as well as alerted.
GreetAlertAlsoLogs ==
    /\ pc = "greet_alert"
    /\ pc' = "in_alert"
    /\ alerts' = Append(alerts, buf[1])
    /\ logs' = Append(logs, buf[1])
    /\ trace' = Append(trace, Ev("invoke", "alert", buf[1]))
    /\ UNCHANGED <<name, buf>>

\* alert(&...): the import is invoked with the formatted message.
GreetAlert ==
    /\ pc = "greet_alert"
    /\ pc' = "in_alert"
    /\ alerts' = Append(alerts, buf[1])
    /\ trace' = Append(trace, Ev("invoke", "alert", buf[1]))
    /\ UNCHANGED <<name, buf, logs>>

\* The host's alert returns normally.
AlertReturns ==
    /\ pc = "in_alert"
    /\ pc' = "greet_ret"
    /\ UNCHANGED <<name, buf, alerts, logs, trace>>

\* The host's alert throws: the import is declared without `catch`, so the
\* exception unwinds through greet to the caller and greet's frame is gone.
AlertThrows ==
    /\ pc = "in_alert"
    /\ pc' = "idle"
    /\ name' = <<>>
    /\ buf' = <<>>
    /\ trace' = Append(trace, Ev("unwind", "greet", <<>>))
    /\ UNCHANGED <<alerts, logs>>

\* End of greet: the String is dropped and () is returned.
GreetReturn ==
    /\ pc = "greet_ret"
    /\ pc' = "idle"
    /\ name' = <<>>
    /\ buf' = <<>>
    /\ trace' = Append(trace, Ev("return", "greet", <<>>))
    /\ UNCHANGED <<alerts, logs>>

\* ------------------------------------------------------------------- main
\* The host calls main().
CallMain ==
    /\ pc = "idle"
    /\ NCalls < MaxCalls
    /\ pc' = "main_log"
    /\ trace' = Append(trace, Ev("call", "main", <<>>))
    /\ UNCHANGED <<name, buf, alerts, logs>>

\* log("Hello, world!")
MainLog ==
    /\ pc = "main_log"
    /\ pc' = "in_log"
    /\ logs' = Append(logs, MainLiteral)
    /\ trace' = Append(trace, Ev("invoke", "log", MainLiteral))
    /\ UNCHANGED <<name, buf, alerts>>

\* The host's log returns normally.
LogReturns ==
    /\ pc = "in_log"
    /\ pc' = "main_ret"
    /\ UNCHANGED <<name, buf, alerts, logs, trace>>

\* The host's log throws; the exception unwinds through main to the caller.
LogThrows ==
    /\ pc = "in_log"
    /\ pc' = "idle"
    /\ trace' = Append(trace, Ev("unwind", "main", <<>>))
    /\ UNCHANGED <<name, buf, alerts, logs>>

\* End of main: () is returned.
MainReturn ==
    /\ pc = "main_ret"
    /\ pc' = "idle"
    /\ trace' = Append(trace, Ev("return", "main", <<>>))
    /\ UNCHANGED <<name, buf, alerts, logs>>

\* ---------------------------------------------------------- specification
Next ==
    \/ \E n \in Names : CallGreet(n)
    \/ GreetFormat
    \/ GreetAlert
    \/ AlertReturns
    \/ AlertThrows
    \/ GreetReturn
    \/ CallMain
    \/ MainLog
    \/ LogReturns
    \/ LogThrows
    \/ MainReturn

Spec == Init /\ [][Next]_vars

\* A started export runs on (the instance is single-threaded and nothing in
\* either export waits), and a host import that was invoked ends, by
\* returning or by throwing.
FairSpec ==
    /\ Spec
    /\ WF_vars(GreetFormat)
    /\ WF_vars(GreetAlert)
    /\ WF_vars(AlertReturns \/ AlertThrows)
    /\ WF_vars(GreetReturn)
    /\ WF_vars(MainLog)
    /\ WF_vars(LogReturns \/ LogThrows)
    /\ WF_vars(MainReturn)

\* ------------------------------------------------------- reading the trace
CallIdx == {i \in DOMAIN trace : trace[i].kind = "call"}

\* The events of the call made at position p: those after it and before the
\* next call.
SegEnd(p) ==
    IF \E q \in CallIdx : q > p
    THEN (CHOOSE q \in CallIdx : q > p /\ \A r \in CallIdx : r > p => q <= r) - 1
    ELSE Len(trace)

Segment(p) == SubSeq(trace, p + 1, SegEnd(p))
Invokes(p) == SelectSeq(Segment(p), LAMBDA e : e.kind = "invoke")
Ended(p) == \E i \in (p + 1)..SegEnd(p) : trace[i].kind \in {"return", "unwind"}
Returned(p) == \E i \in (p + 1)..SegEnd(p) : trace[i].kind = "return"

GreetCalls == {p \in CallIdx : trace[p].who = "greet"}
MainCalls == {p \in CallIdx : trace[p].who = "main"}
NEnded == Len(SelectSeq(trace, LAMBDA e : e.kind \in {"return", "unwind"}))

Hello == <<"H", "e", "l", "l", "o", ",", " ">>
Bang == <<"!">>
HelloWorldBang == <<"H", "e", "l", "l", "o", ",", " ", "W", "o", "r", "l", "d", "!">>
HelloLowerWorldBang == <<"H", "e", "l", "l", "o", ",", " ", "w", "o", "r", "l", "d", "!">>

\* ----------------------------------------------------------------- claims
\* C1: every call greet(N) that has ended, the empty N included, made exactly
\* one host invocation, of alert, with "Hello, " followed by N unchanged
\* followed by "!"; for N = "World" that is "Hello, World!".
C1_GreetAlertsOnce ==
    \A p \in GreetCalls :
        Ended(p) =>
            /\ Invokes(p) = <<Ev("invoke", "alert", Hello \o trace[p].text \o Bang)>>
            /\ trace[p].text = World =>
                   Invokes(p) = <<Ev("invoke", "alert", HelloWorldBang)>>

C1_Witness ==
    /\ \E p \in GreetCalls : Ended(p) /\ trace[p].text = <<>>
    /\ \E p \in GreetCalls : Ended(p) /\ trace[p].text = World
    /\ pc = "idle"

\* C2: every call main() that has ended made exactly one host invocation, of
\* log, with the literal "Hello, world!" (lower-case w), whatever came before.
C2_MainLogsOnce ==
    \A p \in MainCalls :
        Ended(p) => Invokes(p) = <<Ev("invoke", "log", HelloLowerWorldBang)>>

C2_Witness ==
    /\ \E p \in MainCalls : Ended(p) /\ p > 1
    /\ \E p \in MainCalls : Ended(p) /\ p = 1
    /\ pc = "idle"

\* C3: between calls, alert has been invoked as many times as greet was
\* called and log as many times as main was called.
C3_OneInvocationPerCall ==
    pc = "idle" =>
        /\ Len(alerts) = Cardinality(GreetCalls)
        /\ Len(logs) = Cardinality(MainCalls)

\* Two calls of greet with the same name, both alerted.
C3_Witness ==
    /\ pc = "idle"
    /\ \E p, q \in GreetCalls : p # q /\ trace[p].text = trace[q].text
    /\ Len(alerts) >= 2
    /\ alerts[1] = alerts[2]

\* C4: no step of a call to greet changes the record of log invocations, and
\* no step of a call to main changes the record of alert invocations.
C4_Frame ==
    [][ /\ (pc \in GreetPcs \/ pc' \in GreetPcs) => logs' = logs
        /\ (pc \in MainPcs \/ pc' \in MainPcs) => alerts' = alerts ]_vars

\* A greet ended after a log was recorded, and a main ended after an alert.
C4_Witness ==
    /\ pc = "idle"
    /\ alerts # <<>>
    /\ logs # <<>>
    /\ \E p \in GreetCalls : Returned(p)
    /\ \E p \in MainCalls : Returned(p)

\* C5: every call that starts ends, and it ends by returning unless the host
\* import it invoked threw: the k-th call is followed by a k-th return or
\* host unwinding, and no other outcome exists.
C5_CallsComplete ==
    \A k \in 1..MaxCalls : (NCalls >= k) ~> (NEnded >= k /\ pc = "idle")

C5_Witness ==
    /\ pc = "idle"
    /\ NCalls = MaxCalls
    /\ \E p \in GreetCalls : Returned(p) /\ trace[p].text = <<>>
    /\ \A p \in CallIdx : Returned(p)

C7_Synchronous ==
    /\ \A i \in DOMAIN trace :
        /\ trace[i].kind = "call" =>
               i = 1 \/ trace[i - 1].kind \in {"return", "unwind"}
        /\ trace[i].kind = "invoke" =>
               /\ i > 1
               /\ trace[i - 1].kind = "call"
               /\ trace[i].who = (IF trace[i - 1].who = "greet" THEN "alert" ELSE "log")
        /\ trace[i].kind \in {"return", "unwind"} =>
               /\ i > 2
               /\ trace[i - 1].kind = "invoke"
               /\ trace[i - 2].kind = "call"
               /\ trace[i - 2].who = trace[i].who
    /\ pc = "idle" /\ trace # <<>> => trace[Len(trace)].kind \in {"return", "unwind"}

\* A greet and then a main, both returned, alert before log.
C7_Witness ==
    /\ pc = "idle"
    /\ Len(trace) >= 6
    /\ trace[1].who = "greet" /\ trace[2].who = "alert" /\ trace[3].kind = "return"
    /\ trace[4].who = "main" /\ trace[5].who = "log" /\ trace[6].kind = "return"

\* C8: every alerted message is exactly 8 characters longer than the name of
\* the call that alerted it, and calls with different names alert different
\* messages.
C8_Verbatim ==
    /\ \A p \in GreetCalls : \A i \in DOMAIN Invokes(p) :
           Len(Invokes(p)[i].text) = Len(trace[p].text) + 8
    /\ \A p, q \in GreetCalls :
           \A i \in DOMAIN Invokes(p) : \A j \in DOMAIN Invokes(q) :
               trace[p].text # trace[q].text => Invokes(p)[i].text # Invokes(q)[j].text

\* Two different names alerted, one of them longer than the other.
C8_Witness ==
    \E p, q \in GreetCalls :
        /\ Invokes(p) # <<>> /\ Invokes(q) # <<>>
        /\ trace[p].text = World
        /\ trace[q].text = <<" ">>

====
